---- MODULE Spec2Model ----
(***************************************************************************)
(* A model of tutorials/CWHUSKY/mpumonitor.py: the SerialMonitor line      *)
(* classifier, its crash extractor and its crash database.                 *)
(*                                                                         *)
(* A Python str is a string, read character by character; a list of str  *)
(* is a sequence of strings.  An optional value (None or x) is the         *)
(* sequence <<>> or <<x>>.                                                 *)
(***************************************************************************)
EXTENDS Integers, Sequences, FiniteSets, TLC

----------------------------------------------------------------------------
(* Characters and character classes of the regular expressions.            *)

UpperCase == "ABCDEFGHIJKLMNOPQRSTUVWXYZ"
LowerCase == "abcdefghijklmnopqrstuvwxyz"
DigitChars == "0123456789"

\* At(s, i) as a one-character string
At(s, i) == SubSeq(s, i, i)
\* s[i:] for a 1-based i
From(s, i) == SubSeq(s, i, Len(s))
CharsOf(s) == {At(s, i) : i \in 1..Len(s)}

SpaceChars == {" ", "\t"}
WordChars == CharsOf(UpperCase) \cup CharsOf(LowerCase) \cup CharsOf(DigitChars) \cup {"_"}
HexChars == CharsOf(DigitChars) \cup CharsOf("abcdefABCDEF")

\* \s of the re module, over the characters a stripped serial line can hold
IsSpace(c) == c \in SpaceChars
\* \w of the re module: [a-zA-Z0-9_]
IsWordChar(c) == c \in WordChars
\* [0-9a-fA-F]
IsHexDigit(c) == c \in HexChars
\* [0-9A-Fa-fx]
IsRegChar(c) == IsHexDigit(c) \/ c = "x"

\* str.lower() on one character (what re.I compares)
ToLower(c) ==
  IF c \in CharsOf(UpperCase)
    THEN At(LowerCase, CHOOSE i \in 1..Len(UpperCase) : At(UpperCase, i) = c)
    ELSE c
RECURSIVE Lower(_)
Lower(s) == IF s = "" THEN "" ELSE ToLower(At(s, 1)) \o Lower(From(s, 2))

----------------------------------------------------------------------------
(* Matching primitives.  A position is an index into the line; 0 is "no    *)
(* match".                                                                 *)

\* the literal p occurs in s at position i
StartsAt(s, i, p) == i >= 1 /\ i + Len(p) - 1 <= Len(s) /\ SubSeq(s, i, i + Len(p) - 1) = p
\* str.startswith
StartsWith(s, p) == StartsAt(s, 1, p)
\* the literal p occurs somewhere in s
Contains(s, p) == \E i \in 1..Len(s) : StartsAt(s, i, p)
\* a literal at position i: the position after it, or 0
Lit(s, i, p) == IF StartsAt(s, i, p) THEN i + Len(p) ELSE 0

\* \s* from position i: the first position at or after i holding no space
RECURSIVE SkipWs(_, _)
SkipWs(s, i) == IF i >= 1 /\ i <= Len(s) /\ IsSpace(At(s, i)) THEN SkipWs(s, i + 1) ELSE i
\* \s+ from position i: the position after the spaces, or 0
Ws1(s, i) == IF i >= 1 /\ i <= Len(s) /\ IsSpace(At(s, i)) THEN SkipWs(s, i) ELSE 0
\* \b at position i, after a word character
WordEnd(s, i) == i >= 1 /\ (i > Len(s) \/ ~IsWordChar(At(s, i)))

\* the end (exclusive) of the longest run of register characters from i
RECURSIVE RegRunEnd(_, _)
RegRunEnd(s, i) == IF i <= Len(s) /\ IsRegChar(At(s, i)) THEN RegRunEnd(s, i + 1) ELSE i
\* the same for hex digits
RECURSIVE HexRunEnd(_, _)
HexRunEnd(s, i) == IF i <= Len(s) /\ IsHexDigit(At(s, i)) THEN HexRunEnd(s, i + 1) ELSE i

Min(S) == CHOOSE x \in S : \A y \in S : x <= y

----------------------------------------------------------------------------
(* The patterns.                                                           *)

KwNotice == "NOTICE:"
KwCpu == "CPU:"
KwChip == "STM32MP257FAI"
KwRev == "Rev.Y"
KwStarted == "## Starting application at 0x88000040"
KwSyncAbort == "synchronous abort"
KwUndef == "undefined instruction"
KwException == "exception"
KwCodeSp == "Code: "
KwCode == "Code:"
KwElr == "elr:"
KwLr == "lr"
KwEsr == "esr"
Kw0x == "0x"
KwRun == "run_"

\* RE_CPU_RESET: ^NOTICE:\s+CPU:\s+STM32MP257FAI\s+Rev\.Y\b
ReCpuReset(line) ==
  WordEnd(line, Lit(line, Ws1(line, Lit(line, Ws1(line, Lit(line, Ws1(line,
          Lit(line, 1, KwNotice)), KwCpu)), KwChip)), KwRev))

\* RE_BOOT_FINISHED: ^## Starting application at 0x88000040\b
ReBootFinished(line) == WordEnd(line, Lit(line, 1, KwStarted))

\* RE_CRASH_START: (Synchronous Abort|Undefined Instruction|Exception), re.I
ReCrashStart(line) ==
  \/ Contains(Lower(line), KwSyncAbort)
  \/ Contains(Lower(line), KwUndef)
  \/ Contains(Lower(line), KwException)

\* RE_CRASH_END: ^Code: .* \(.*\)
ReCrashEnd(line) ==
  /\ StartsWith(line, KwCodeSp)
  /\ \E i \in (Len(KwCodeSp) + 1)..Len(line) :
       /\ StartsAt(line, i, " (")
       /\ \E j \in (i + 2)..Len(line) : At(line, j) = ")"

\* RE_ELR.search(l): elr:\s*([0-9A-Fa-fx]+), the capture of the leftmost match
ElrStarts(l) == {i \in 1..Len(l) : /\ StartsAt(l, i, KwElr)
                                   /\ RegRunEnd(l, SkipWs(l, i + Len(KwElr))) > SkipWs(l, i + Len(KwElr))}
ReElr(l) ==
  IF ElrStarts(l) = {} THEN <<>>
  ELSE LET b == SkipWs(l, Min(ElrStarts(l)) + Len(KwElr))
       IN <<SubSeq(l, b, RegRunEnd(l, b) - 1)>>

\* RE_LR.search(l): lr\s*:\s*([0-9A-Fa-fx]+)
LrValueAt(l, i) == SkipWs(l, Lit(l, SkipWs(l, i + Len(KwLr)), ":"))
LrStarts(l) == {i \in 1..Len(l) : /\ StartsAt(l, i, KwLr)
                                  /\ Lit(l, SkipWs(l, i + Len(KwLr)), ":") > 0
                                  /\ RegRunEnd(l, LrValueAt(l, i)) > LrValueAt(l, i)}
ReLr(l) ==
  IF LrStarts(l) = {} THEN <<>>
  ELSE LET b == LrValueAt(l, Min(LrStarts(l)))
       IN <<SubSeq(l, b, RegRunEnd(l, b) - 1)>>

\* RE_ESR.search(l): esr\s*(0x[0-9A-Fa-fA-F]+)
EsrValueAt(l, i) == SkipWs(l, i + Len(KwEsr))
EsrStarts(l) == {i \in 1..Len(l) : /\ StartsAt(l, i, KwEsr)
                                   /\ StartsAt(l, EsrValueAt(l, i), Kw0x)
                                   /\ HexRunEnd(l, EsrValueAt(l, i) + 2) > EsrValueAt(l, i) + 2}
ReEsr(l) ==
  IF EsrStarts(l) = {} THEN <<>>
  ELSE LET b == EsrValueAt(l, Min(EsrStarts(l)))
       IN <<SubSeq(l, b, HexRunEnd(l, b + 2) - 1)>>

\* re.findall(r"[0-9a-fA-F]{8}", l) from position i: the non-overlapping
\* runs of eight hex digits, left to right
RECURSIVE FindHex8(_, _)
FindHex8(l, i) ==
  IF i + 7 > Len(l) THEN <<>>
  ELSE IF \A k \in i..(i + 7) : IsHexDigit(At(l, k))
         THEN <<SubSeq(l, i, i + 7)>> \o FindHex8(l, i + 8)
         ELSE FindHex8(l, i + 1)

----------------------------------------------------------------------------
(* The lines of the model, and the patterns applied once to each of them:  *)
(* what a pattern finds in a line depends on the line alone.               *)

ResetLine == "NOTICE: CPU: STM32MP257FAI Rev.Y"
BootMsgLine == "boot msg"
AbortLine == "Synchronous Abort"
ElrLine == "elr: 0x1234"
CodeLine == "Code: 11111111 22222222 (33333333)"
StartedLine == "## Starting application at 0x88000040"
\* Code lines with no hex word, with one, and the one of the specification
CodeNoWordLine == "Code: none (x)"
CodeOneWordLine == "Code: deadbeef"
CodeAbcLine == "Code: aaaaaaaa bbbbbbbb (cccccccc)"

\* the lines of the stream, those a driver-level run is fed, and those the
\* crash parser is tried on
Lines == {ResetLine, BootMsgLine, AbortLine, ElrLine, CodeLine, StartedLine}
DriverLines == {ResetLine, AbortLine, CodeLine}
ParserLines == {BootMsgLine, CodeLine, CodeNoWordLine, CodeOneWordLine, CodeAbcLine}
AllLines == Lines \cup ParserLines

\* every pattern on the line l
Scan(l) ==
  [reset |-> ReCpuReset(l), finished |-> ReBootFinished(l),
   start |-> ReCrashStart(l), end |-> ReCrashEnd(l),
   elr |-> ReElr(l), lr |-> ReLr(l), esr |-> ReEsr(l),
   code |-> StartsWith(l, KwCode), words |-> FindHex8(l, 1)]

\* the scans of all lines, as the set of pairs <<line, scan>>
Scanned == {<<l, Scan(l)>> : l \in AllLines}
ScanOf(line) == (CHOOSE p \in Scanned : p[1] = line)[2]

\* RE_CPU_RESET.search(line), RE_BOOT_FINISHED.search(line),
\* RE_CRASH_START.search(line), RE_CRASH_END.search(line)
IsResetMarker(line) == ScanOf(line).reset
IsBootFinished(line) == ScanOf(line).finished
IsCrashStart(line) == ScanOf(line).start
IsCrashEnd(line) == ScanOf(line).end
\* RE_ELR.search(l), RE_LR.search(l), RE_ESR.search(l): group(1) or None
MatchElr(l) == ScanOf(l).elr
MatchLr(l) == ScanOf(l).lr
MatchEsr(l) == ScanOf(l).esr
\* l.startswith("Code:") and re.findall(r"[0-9a-fA-F]{8}", l)
IsCodeLine(l) == ScanOf(l).code
HexWords(l) == ScanOf(l).words

----------------------------------------------------------------------------
(* Crash parsing utilities.                                                *)

None == <<>>
Some(x) == <<x>>

\* the first element of the sequence of optionals that is not None
RECURSIVE FirstMatch(_)
FirstMatch(ms) ==
  IF ms = <<>> THEN None
  ELSE IF Head(ms) # None THEN Head(ms) ELSE FirstMatch(Tail(ms))

\* _extract_elr / _extract_lr / _extract_esr: group(1) of the first line that matches
ExtractElr(crash) == FirstMatch([i \in DOMAIN crash |-> MatchElr(crash[i])])
ExtractLr(crash) == FirstMatch([i \in DOMAIN crash |-> MatchLr(crash[i])])
ExtractEsr(crash) == FirstMatch([i \in DOMAIN crash |-> MatchEsr(crash[i])])

\* parts[:-1]
AllButLast(parts) == SubSeq(parts, 1, Len(parts) - 1)
\* parts[-1]
Last(parts) == parts[Len(parts)]

\* a variant of the loop body that takes the first word as the fault
CodeOfLineFirstWord(l) ==
  LET parts == HexWords(l)
  IN IF parts = <<>> THEN <<None, None>>
     ELSE <<Some(Tail(parts)), Some(Head(parts))>>

\* the body of the loop of _extract_code for the line l that starts with
\* "Code:": the pair (prev, fault), each None or a value
CodeOfLine(l) ==
  LET parts == HexWords(l)
  IN IF parts = <<>> THEN <<None, None>>
     ELSE <<Some(AllButLast(parts)), Some(Last(parts))>>

\* a variant of _extract_code that goes on past a Code line without words
RECURSIVE ExtractCodeSkipEmpty(_)
ExtractCodeSkipEmpty(crash) ==
  IF crash = <<>> THEN <<None, None>>
  ELSE IF IsCodeLine(Head(crash)) /\ HexWords(Head(crash)) # <<>>
    THEN CodeOfLine(Head(crash))
  ELSE ExtractCodeSkipEmpty(Tail(crash))

\* _extract_code: decided by the first line that starts with "Code:"
RECURSIVE ExtractCode(_)
ExtractCode(crash) ==
  IF crash = <<>> THEN <<None, None>>
  ELSE IF IsCodeLine(Head(crash)) THEN CodeOfLine(Head(crash))
  ELSE ExtractCode(Tail(crash))

----------------------------------------------------------------------------
(* Numbers and text.                                                       *)

\* str(n) for n >= 0, as the f-string f"run_{n}" formats it
RECURSIVE Decimal(_)
Decimal(n) ==
  IF n < 10 THEN At(DigitChars, n + 1)
  ELSE Decimal(n \div 10) \o At(DigitChars, (n % 10) + 1)

\* f"run_{n}"
RunName(n) == KwRun \o Decimal(n)

IsDigit(c) == c \in CharsOf(DigitChars)
DigitValue(c) == (CHOOSE i \in 1..Len(DigitChars) : At(DigitChars, i) = c) - 1

\* str.strip() of whitespace
RECURSIVE StripRight(_)
StripRight(s) == IF s # "" /\ IsSpace(At(s, Len(s))) THEN StripRight(SubSeq(s, 1, Len(s) - 1)) ELSE s
Strip(s) == StripRight(From(s, SkipWs(s, 1)))

\* the value of a digit string in which single underscores may separate digits
RECURSIVE DigitsValue(_, _)
DigitsValue(s, acc) ==
  IF s = "" THEN acc
  ELSE IF At(s, 1) = "_" THEN DigitsValue(From(s, 2), acc)
  ELSE DigitsValue(From(s, 2), 10 * acc + DigitValue(At(s, 1)))

\* the digit strings int() accepts: digits, single underscores between digits
IsIntBody(s) ==
  /\ s # ""
  /\ IsDigit(At(s, 1)) /\ IsDigit(At(s, Len(s)))
  /\ \A i \in 1..Len(s) : IsDigit(At(s, i)) \/ At(s, i) = "_"
  /\ \A i \in 1..(Len(s) - 1) : ~(At(s, i) = "_" /\ At(s, i + 1) = "_")

\* int(s): Some(n), or None where int raises ValueError
ParseInt(s) ==
  LET t == Strip(s)
      signed == t # "" /\ At(t, 1) \in {"+", "-"}
      body == IF signed THEN From(t, 2) ELSE t
  IN IF ~IsIntBody(body) THEN None
     ELSE IF signed /\ At(t, 1) = "-" THEN Some(0 - DigitsValue(body, 0))
     ELSE Some(DigitsValue(body, 0))

\* k.split("_", 1)[1]: what follows the first underscore of k
AfterFirstUnderscore(k) ==
  From(k, Min({j \in 1..Len(k) : At(k, j) = "_"}) + 1)

Max2(a, b) == IF a >= b THEN a ELSE b

\* the loop of load_db over the keys, in order: the largest n of a key
\* "run_<n>", from max_n
RECURSIVE ScanMaxRun(_, _)
ScanMaxRun(keys, max_n) ==
  IF keys = <<>> THEN max_n
  ELSE LET k == Head(keys)
           n == IF StartsWith(k, KwRun) THEN ParseInt(AfterFirstUnderscore(k)) ELSE None
       IN ScanMaxRun(Tail(keys), IF n = None THEN max_n ELSE Max2(max_n, n[1]))

----------------------------------------------------------------------------
(* Dictionaries and JSON.  A dict is the sequence of its <<key, value>>    *)
(* items in insertion order.  A JSON document is a tree of tagged records. *)

Keys(d) == [i \in DOMAIN d |-> d[i][1]]
KeySet(d) == {d[i][1] : i \in DOMAIN d}
HasKey(d, k) == k \in KeySet(d)
Get(d, k) == d[CHOOSE i \in DOMAIN d : d[i][1] = k][2]

\* d[k] = v: a present key keeps its place, a new key goes last
Put(d, k, v) ==
  IF HasKey(d, k) THEN [i \in DOMAIN d |-> IF d[i][1] = k THEN <<k, v>> ELSE d[i]]
  ELSE Append(d, <<k, v>>)

\* d1 == d2 for dicts: the same keys with the same values, in any order
DictEq(d1, d2) ==
  /\ KeySet(d1) = KeySet(d2)
  /\ \A k \in KeySet(d1) : Get(d1, k) = Get(d2, k)

JNull == [j |-> "null"]
JBool(b) == [j |-> "bool", b |-> b]
JString(s) == [j |-> "string", s |-> s]
JArray(a) == [j |-> "array", a |-> a]
JObject(o) == [j |-> "object", o |-> o]

\* a variant of the dump of an optional str that writes None as str(None)
DumpOptStrAsText(v) == JString(IF v = None THEN "None" ELSE v[1])

\* json.dump of an optional str, of a list of str, of an optional list of str
DumpOptStr(v) == IF v = None THEN JNull ELSE JString(v[1])
DumpStrList(l) == JArray([i \in DOMAIN l |-> JString(l[i])])
DumpOptStrList(v) == IF v = None THEN JNull ELSE DumpStrList(v[1])

\* json.dump of one crash entry: its items in the order the dict was built
DumpEntry(e) ==
  JObject(<< <<"timestamp", JString(e.timestamp)>>,
             <<"run_id", DumpOptStr(e.run_id)>>,
             <<"complete", JBool(e.complete)>>,
             <<"esr", DumpOptStr(e.esr)>>,
             <<"elr", DumpOptStr(e.elr)>>,
             <<"lr", DumpOptStr(e.lr)>>,
             <<"prev_instructions", DumpOptStrList(e.prev_instructions)>>,
             <<"faulting_instruction", DumpOptStr(e.faulting_instruction)>>,
             <<"raw_dump", DumpStrList(e.raw_dump)>> >>)

\* json.dump(self.crash_db, f, indent=2)
JsonDump(db) == JObject([i \in DOMAIN db |-> <<db[i][1], DumpEntry(db[i][2])>>])

\* json.load of the same shapes
LoadOptStr(v) == IF v.j = "null" THEN None ELSE Some(v.s)
LoadStrList(v) == [i \in DOMAIN v.a |-> v.a[i].s]
LoadOptStrList(v) == IF v.j = "null" THEN None ELSE Some(LoadStrList(v))

LoadEntry(v) ==
  [timestamp |-> Get(v.o, "timestamp").s,
   run_id |-> LoadOptStr(Get(v.o, "run_id")),
   complete |-> Get(v.o, "complete").b,
   esr |-> LoadOptStr(Get(v.o, "esr")),
   elr |-> LoadOptStr(Get(v.o, "elr")),
   lr |-> LoadOptStr(Get(v.o, "lr")),
   prev_instructions |-> LoadOptStrList(Get(v.o, "prev_instructions")),
   faulting_instruction |-> LoadOptStr(Get(v.o, "faulting_instruction")),
   raw_dump |-> LoadStrList(Get(v.o, "raw_dump"))]

\* json.load(f): the items in document order, a repeated key keeping its
\* first place and its last value
RECURSIVE LoadItems(_, _)
LoadItems(items, acc) ==
  IF items = <<>> THEN acc
  ELSE LoadItems(Tail(items), Put(acc, Head(items)[1], LoadEntry(Head(items)[2])))
JsonLoad(doc) == LoadItems(doc.o, <<>>)

----------------------------------------------------------------------------
(* The run ids a driver installs, and the bounds of the model.              *)

\* the arguments of set_run_id
RunIds == {"run_2", "run_x"}

\* crash_db_path as the driver passes it: the default of __init__
Paths == {"crash_db.json"}

\* the capacity of the rolling log (max_log)
MaxLog == 2
\* the most lines a crash capture holds
MaxCrash == 3
\* the largest run counter
MaxRun == 2
\* the most readings of the clock, one per finalize
MaxNow == 2
\* the most calls of set_run_id, save_db and load_db the driver makes
MaxCalls == 2
\* the most restarts of the process
MaxRestarts == 1
\* the most lines the serial source delivers to a monitor under its driver
MaxLines == 4
\* the most lines it delivers to a monitor left to its worker
MaxStream == 6
\* the most lines it delivers over one lifetime with the driver's calls
MaxSpan == 5
\* the most writes of the file and reads of the port that fail
MaxFails == 1
\* the most lines of a capture handed to the crash parser
MaxDump == 3
\* the most threads start() creates
MaxThreads == 2

----------------------------------------------------------------------------
(* The state.                                                              *)

VARIABLES
  state,          \* self.state: "unknown", "booting" or "running"
  log_buffer,     \* self.log_buffer: a deque of at most MaxLog lines
  crash_active,   \* self.crash_active
  crash_temp,     \* self.crash_temp
  last_crash,     \* self.last_crash
  run_id,         \* self.run_id: None or Some(str)
  run_counter,    \* self.run_counter
  crash_db,       \* self.crash_db: run id -> crash entry
  crash_db_path,  \* self.crash_db_path
  disk,           \* the file at crash_db_path: missing, corrupt, or a JSON document
  now,            \* the number of readings of datetime.now() so far
  ret,            \* the last call that returns a value: its argument and result
  running,        \* self.running
  thread,         \* self.thread: None or Some(i), the i-th thread created
  workers,        \* the threads start() has created, in order: where each is
  driver,         \* where the driver is in start() and stop()
  last_op,        \* history: the last call on the monitor and how it ended
  hist            \* history: what the calls of this lifetime add up to

vars == <<state, log_buffer, crash_active, crash_temp, last_crash, run_id,
          run_counter, crash_db, crash_db_path, disk, now, ret, running, thread,
          workers, driver, last_op, hist>>

\* the control flags, the thread handle, the threads and the driver
tvars == <<running, thread, workers, driver>>

\* the monitor, its file, its clock and the history
mvars == <<state, log_buffer, crash_active, crash_temp, last_crash, run_id,
           run_counter, crash_db, crash_db_path, disk, now, ret, last_op, hist>>

\* the monitor, its file and its clock as one value; exc names the
\* exception a call lets escape ("" for none)
Self ==
  [state |-> state, log_buffer |-> log_buffer, crash_active |-> crash_active,
   crash_temp |-> crash_temp, last_crash |-> last_crash, run_id |-> run_id,
   run_counter |-> run_counter, crash_db |-> crash_db,
   crash_db_path |-> crash_db_path, disk |-> disk, now |-> now, exc |-> ""]

Become(w) ==
  /\ state' = w.state
  /\ log_buffer' = w.log_buffer
  /\ crash_active' = w.crash_active
  /\ crash_temp' = w.crash_temp
  /\ last_crash' = w.last_crash
  /\ run_id' = w.run_id
  /\ run_counter' = w.run_counter
  /\ crash_db' = w.crash_db
  /\ crash_db_path' = w.crash_db_path
  /\ disk' = w.disk
  /\ now' = w.now
  /\ ret' = ret

Missing == [kind |-> "missing"]
Corrupt == [kind |-> "corrupt"]
Snapshot(doc) == [kind |-> "json", doc |-> doc]

\* how the write of save_db ends: it completes, open() raises, or a write
\* raises after open() has truncated the file
IoOutcomes == {"ok", "open_fails", "write_fails"}

----------------------------------------------------------------------------
(* The methods.                                                            *)

\* __init__
Construct(w, path) ==
  [w EXCEPT !.state = "unknown", !.log_buffer = <<>>, !.crash_active = FALSE,
            !.crash_temp = <<>>, !.last_crash = <<>>, !.run_id = None,
            !.run_counter = 0, !.crash_db = <<>>, !.crash_db_path = path,
            !.exc = ""]

\* deque.append with maxlen = MaxLog
DequeAppend(q, x) ==
  IF MaxLog = 0 THEN <<>>
  ELSE IF Len(q) >= MaxLog THEN Append(Tail(q), x)
  ELSE Append(q, x)

\* set_run_id
SetRunIdOf(w, rid) == [w EXCEPT !.run_id = Some(rid)]

\* save_db
SaveDb(w, io) ==
  IF w.crash_db_path = "" THEN w
  ELSE IF io = "ok" THEN [w EXCEPT !.disk = Snapshot(JsonDump(w.crash_db))]
  ELSE IF io = "open_fails" THEN [w EXCEPT !.exc = "OSError"]
  ELSE [w EXCEPT !.disk = Corrupt, !.exc = "OSError"]

\* a variant of load_db that resumes the counter at the number of keys
LoadDbCountKeys(w) ==
  IF w.crash_db_path = "" THEN [w EXCEPT !.crash_db = <<>>, !.run_counter = 0]
  ELSE IF w.disk.kind = "missing" THEN [w EXCEPT !.crash_db = <<>>, !.run_counter = 0]
  ELSE IF w.disk.kind = "corrupt" THEN [w EXCEPT !.exc = "JSONDecodeError"]
  ELSE LET db == JsonLoad(w.disk.doc)
       IN [w EXCEPT !.crash_db = db, !.run_counter = Len(db)]

\* load_db
LoadDb(w) ==
  IF w.crash_db_path = "" THEN [w EXCEPT !.crash_db = <<>>, !.run_counter = 0]
  ELSE IF w.disk.kind = "missing" THEN [w EXCEPT !.crash_db = <<>>, !.run_counter = 0]
  ELSE IF w.disk.kind = "corrupt" THEN [w EXCEPT !.exc = "JSONDecodeError"]
  ELSE LET db == JsonLoad(w.disk.doc)
       IN [w EXCEPT !.crash_db = db, !.run_counter = ScanMaxRun(Keys(db), 0)]

\* datetime.now().isoformat() at the t-th reading of the clock
IsoFormat(t) == "T" \o Decimal(t)

\* a variant of the crash_entry dict that is complete whatever the caller says
CrashEntryAlwaysComplete(w, complete) ==
  LET code == ExtractCode(w.crash_temp)
      prev == code[1]
  IN [timestamp |-> IsoFormat(w.now),
      run_id |-> w.run_id,
      complete |-> TRUE,
      esr |-> ExtractEsr(w.crash_temp),
      elr |-> ExtractElr(w.crash_temp),
      lr |-> ExtractLr(w.crash_temp),
      prev_instructions |-> IF prev # None /\ prev[1] # <<>> THEN prev ELSE None,
      faulting_instruction |-> code[2],
      raw_dump |-> w.crash_temp]

\* the crash_entry dict of _finalize_crash
CrashEntry(w, complete) ==
  LET code == ExtractCode(w.crash_temp)
      prev == code[1]
  IN [timestamp |-> IsoFormat(w.now),
      run_id |-> w.run_id,
      complete |-> complete,
      esr |-> ExtractEsr(w.crash_temp),
      elr |-> ExtractElr(w.crash_temp),
      lr |-> ExtractLr(w.crash_temp),
      prev_instructions |-> IF prev # None /\ prev[1] # <<>> THEN prev ELSE None,
      faulting_instruction |-> code[2],
      raw_dump |-> w.crash_temp]

\* the fallback run id of _finalize_crash
EnsureRunId(w) ==
  IF w.run_id = None
    THEN [w EXCEPT !.run_counter = @ + 1, !.run_id = Some(RunName(w.run_counter + 1))]
    ELSE w

\* self.crash_db[self.run_id] = crash_entry
StoreEntry(w, entry) == [w EXCEPT !.crash_db = Put(@, w.run_id[1], entry)]

\* a variant of _finalize_crash that takes the entry back when save_db raises
FinalizeCrashRollback(w, complete, io) ==
  LET w1 == [w EXCEPT !.crash_active = FALSE, !.last_crash = w.crash_temp,
                      !.now = @ + 1]
      w2 == StoreEntry(EnsureRunId(w1), CrashEntry(w, complete))
      w3 == SaveDb(w2, io)
  IN IF w3.exc # "" THEN [w3 EXCEPT !.crash_db = w.crash_db]
     ELSE [w3 EXCEPT !.crash_temp = <<>>]

\* _finalize_crash
FinalizeCrash(w, complete, io) ==
  LET w1 == [w EXCEPT !.crash_active = FALSE, !.last_crash = w.crash_temp,
                      !.now = @ + 1]
      w2 == StoreEntry(EnsureRunId(w1), CrashEntry(w, complete))
      w3 == SaveDb(w2, io)
  IN IF w3.exc # "" THEN w3 ELSE [w3 EXCEPT !.crash_temp = <<>>]

\* the reset branch of _process_line
ProcessReset(w, line, io) ==
  LET w1 == IF w.crash_active THEN FinalizeCrash(w, FALSE, io) ELSE w
  IN IF w1.exc # "" THEN w1
     ELSE [w1 EXCEPT !.run_counter = @ + 1,
                     !.run_id = Some(RunName(w1.run_counter + 1)),
                     !.log_buffer = DequeAppend(<<>>, line),
                     !.state = "booting"]

\* a variant of step 2 in which a crash puts the state back to "unknown"
BeginCaptureForgetsState(w, line) ==
  IF IsCrashStart(line)
    THEN [w EXCEPT !.crash_active = TRUE, !.crash_temp = <<>>, !.state = "unknown"]
  ELSE w

\* step 2 of _process_line, the test of RE_CRASH_START
BeginCapture(w, line) ==
  IF IsCrashStart(line) THEN [w EXCEPT !.crash_active = TRUE, !.crash_temp = <<>>]
  ELSE w

\* a variant of _process_line that looks for the boot-finished banner before
\* it looks at the capture
ProcessLineBannerFirst(w, line, io) ==
  IF IsResetMarker(line) THEN ProcessReset(w, line, io)
  ELSE LET w1 == [w EXCEPT !.log_buffer = DequeAppend(@, line),
                           !.state = IF IsBootFinished(line) THEN "running" ELSE @]
           w2 == BeginCapture(w1, line)
       IN IF w2.crash_active
            THEN LET w3 == [w2 EXCEPT !.crash_temp = Append(@, line)]
                 IN IF IsCrashEnd(line) THEN FinalizeCrash(w3, TRUE, io) ELSE w3
          ELSE w2

\* _process_line
ProcessLine(w, line, io) ==
  IF IsResetMarker(line) THEN ProcessReset(w, line, io)
  ELSE LET w1 == [w EXCEPT !.log_buffer = DequeAppend(@, line)]
           w2 == BeginCapture(w1, line)
       IN IF w2.crash_active
            THEN LET w3 == [w2 EXCEPT !.crash_temp = Append(@, line)]
                 IN IF IsCrashEnd(line) THEN FinalizeCrash(w3, TRUE, io) ELSE w3
          ELSE IF IsBootFinished(line) THEN [w2 EXCEPT !.state = "running"]
          ELSE w2

----------------------------------------------------------------------------
(* History: what the properties need to know about the calls made so far.  *)
(* None of it is read by the methods.                                      *)

\* the scenario of the testable properties, line by line
Scenario == <<ResetLine, BootMsgLine, AbortLine, ElrLine, CodeLine, StartedLine>>

NoBlock == [lines |-> <<>>, closed |-> FALSE]

\* the crash block the stream is in: it opens at a crash-start line fed
\* outside a block, takes every further line that is neither a reset marker
\* nor a crash-end line, and closes with a crash-end line
TrackBlock(b, line) ==
  IF IsResetMarker(line) THEN NoBlock
  ELSE IF b.lines = <<>> \/ b.closed
    THEN IF IsCrashStart(line) /\ ~IsCrashEnd(line)
           THEN [lines |-> <<line>>, closed |-> FALSE]
           ELSE NoBlock
  ELSE IF Len(b.lines) >= MaxCrash THEN NoBlock
  ELSE [lines |-> Append(b.lines, line), closed |-> IsCrashEnd(line)]

\* the n of a run id "run_<n>", 0 for None and for any other id
NumSuffix(rid) ==
  IF rid = None \/ ~StartsWith(rid[1], KwRun) THEN 0
  ELSE LET n == ParseInt(AfterFirstUnderscore(rid[1]))
       IN IF n = None THEN 0 ELSE n[1]

\* the driver between calls; stopped: stop() has returned and start() was
\* not called since
Ready == [pc |-> "ready", stopped |-> FALSE]

\* op: the method; line: the line of _process_line; exc: the exception that
\* escaped; finalized: _finalize_crash ran; saved: a save_db wrote the file;
\* assigned: _process_line made a run id; follows_save: the call before
\* this one had saved
NoOp == [op |-> "init", line |-> "", exc |-> "", finalized |-> FALSE,
         saved |-> FALSE, assigned |-> FALSE, follows_save |-> FALSE]

NoCall == [call |-> "", arg |-> <<>>, value |-> <<>>]

\* block: the crash block the stream is in; hi: the largest suffix of a run
\* id that was current; loaded: load_db was called; failed: the keys of the
\* finalizes whose save raised; scen: the lines of the scenario fed so far,
\* -1 off it; calls, restarts, fails, lines: what the bounds count
\* pre: the monitor as it was when the line in progress began, None between
\* lines; log: the newest MaxLog of the lines handed to _process_line since
\* and including the last reset marker; span: the keys of crash_db whose
\* record was made in the boot attempt the stream is in
FreshHist == [block |-> NoBlock, hi |-> 0, loaded |-> FALSE, failed |-> {}, scen |-> 0,
              calls |-> 0, restarts |-> 0, fails |-> 0, lines |-> 0, pre |-> None,
              log |-> <<>>, span |-> {}]

\* the newest MaxLog elements of s
Newest(s) == SubSeq(s, Max2(1, Len(s) - MaxLog + 1), Len(s))

\* the run id a finalize files its record under, before the finalize
KeyAtFinalize == IF run_id = None THEN RunName(run_counter + 1) ELSE run_id[1]

\* the keys whose record was made in the boot attempt the stream is in, after
\* _process_line(line): a reset marker begins a new attempt, a finalize adds
\* its key
SpanAfter(line, finalized) ==
  IF IsResetMarker(line) THEN {}
  ELSE IF finalized THEN hist.span \cup {KeyAtFinalize}
  ELSE hist.span

\* the largest suffix among the run ids that were current before the step
HiAfter(w) == IF w.run_id # run_id THEN Max2(hist.hi, NumSuffix(run_id)) ELSE hist.hi

----------------------------------------------------------------------------
(* The specification: one monitor, driven through its public methods and   *)
(* by the lines of the serial source, over one file and across restarts.   *)

Init ==
  /\ state = "unknown"
  /\ log_buffer = <<>>
  /\ crash_active = FALSE
  /\ crash_temp = <<>>
  /\ last_crash = <<>>
  /\ run_id = None
  /\ run_counter = 0
  /\ crash_db = <<>>
  /\ crash_db_path \in Paths
  /\ disk = Missing
  /\ now = 0
  /\ ret = NoCall
  /\ running = FALSE
  /\ thread = None
  /\ workers = <<>>
  /\ driver = Ready
  /\ last_op = NoOp
  /\ hist = FreshHist

\* the bounds of the model, on the state a call leads to
WithinBounds(w) ==
  /\ Len(w.crash_temp) <= MaxCrash
  /\ w.run_counter <= MaxRun
  /\ w.now <= MaxNow

\* the worker hands one line to _process_line; io is how the write of a
\* save_db it runs ends
Process(line, io) ==
  \E w \in {ProcessLine(Self, line, io)} :
    LET finalized == w.now > now
    IN /\ io = "ok" \/ (finalized /\ crash_db_path # "" /\ hist.fails < MaxFails)
       /\ WithinBounds(w)
       /\ Become(w)
       /\ last_op' = [op |-> "process", line |-> line, exc |-> w.exc,
                      finalized |-> finalized,
                      saved |-> finalized /\ w.exc = "" /\ crash_db_path # "",
                      assigned |-> w.run_counter > run_counter,
                      follows_save |-> last_op.saved]
       /\ hist' = [hist EXCEPT
                     !.block = TrackBlock(@, line),
                     !.hi = HiAfter(w),
                     !.failed = IF finalized /\ w.exc # "" THEN @ \cup {w.run_id[1]} ELSE @,
                     !.fails = IF w.exc # "" THEN @ + 1 ELSE @,
                     !.lines = @ + 1,
                     !.span = SpanAfter(line, finalized),
                     !.log = Newest(IF IsResetMarker(line) THEN <<line>>
                                    ELSE Append(@, line)),
                     !.scen = IF @ >= 0 /\ @ < Len(Scenario) /\ line = Scenario[@ + 1]
                                THEN @ + 1 ELSE -1]

\* the block a call other than _process_line leaves: a closed one is over
BlockKept == IF hist.block.closed THEN NoBlock ELSE hist.block

\* the driver calls set_run_id(rid)
SetRunId(rid) ==
  \E w \in {SetRunIdOf(Self, rid)} :
    /\ hist.calls < MaxCalls
    /\ Become(w)
    /\ UNCHANGED tvars
    /\ last_op' = [NoOp EXCEPT !.op = "set_run_id", !.follows_save = last_op.saved]
    /\ hist' = [hist EXCEPT !.block = BlockKept, !.hi = HiAfter(w), !.scen = -1,
                            !.calls = @ + 1]

\* the driver calls save_db()
CallSaveDb(io) ==
  \E w \in {SaveDb(Self, io)} :
    /\ hist.calls < MaxCalls
    /\ io = "ok" \/ (crash_db_path # "" /\ hist.fails < MaxFails)
    /\ Become(w)
    /\ UNCHANGED tvars
    /\ last_op' = [NoOp EXCEPT !.op = "save_db", !.exc = w.exc,
                               !.saved = (w.exc = "" /\ crash_db_path # ""),
                               !.follows_save = last_op.saved]
    /\ hist' = [hist EXCEPT !.block = BlockKept, !.scen = -1, !.calls = @ + 1,
                            !.fails = IF w.exc # "" THEN @ + 1 ELSE @]

\* the driver calls load_db()
CallLoadDb ==
  \E w \in {LoadDb(Self)} :
    /\ hist.calls < MaxCalls
    /\ WithinBounds(w)
    /\ Become(w)
    /\ UNCHANGED tvars
    /\ last_op' = [NoOp EXCEPT !.op = "load_db", !.exc = w.exc,
                               !.follows_save = last_op.saved]
    /\ hist' = [hist EXCEPT !.block = BlockKept, !.loaded = TRUE, !.scen = -1,
                            !.failed = IF w.exc = "" THEN {} ELSE @,
                            !.span = {k \in @ : /\ HasKey(w.crash_db, k)
                                                /\ HasKey(crash_db, k)
                                                /\ Get(w.crash_db, k) = Get(crash_db, k)},
                            !.calls = @ + 1]

\* the process ends and a new one constructs a monitor; the file and the
\* clock go on
Restart(path) ==
  /\ hist.restarts < MaxRestarts
  /\ Become(Construct(Self, path))
  /\ UNCHANGED tvars
  /\ last_op' = NoOp
  /\ hist' = [FreshHist EXCEPT !.restarts = hist.restarts + 1, !.calls = hist.calls,
                               !.fails = hist.fails, !.lines = hist.lines]

\* the monitor under its driver: a short stream, every public method, restarts
Next ==
  \/ \E line \in DriverLines, io \in IoOutcomes :
       hist.lines < MaxLines /\ Process(line, io) /\ UNCHANGED tvars
  \/ \E rid \in RunIds : SetRunId(rid)
  \/ \E io \in IoOutcomes : CallSaveDb(io)
  \/ CallLoadDb
  \/ \E path \in Paths : Restart(path)

Spec == Init /\ [][Next]_vars

\* the monitor under its worker alone: every line of the stream, no driver call
NextStream ==
  \E line \in Lines, io \in IoOutcomes :
    hist.lines < MaxStream /\ Process(line, io) /\ UNCHANGED tvars

SpecStream == Init /\ [][NextStream]_vars

\* the monitor over one lifetime: a longer stream and the driver's calls
NextRuns ==
  \/ \E line \in DriverLines, io \in IoOutcomes :
       hist.lines < MaxSpan /\ Process(line, io) /\ UNCHANGED tvars
  \/ \E rid \in RunIds : SetRunId(rid)
  \/ \E io \in IoOutcomes : CallSaveDb(io)
  \/ CallLoadDb

SpecRuns == Init /\ [][NextRuns]_vars

\* the captures the crash parser is tried on: at most MaxDump parser lines
Dumps == UNION {[1..n -> ParserLines] : n \in 0..MaxDump}

\* _extract_code(crash)
CallExtractCode(crash) ==
  /\ ret' = [call |-> "_extract_code", arg |-> crash, value |-> ExtractCode(crash)]
  /\ UNCHANGED <<state, log_buffer, crash_active, crash_temp, last_crash, run_id,
                 run_counter, crash_db, crash_db_path, disk, now, last_op, hist>>
  /\ UNCHANGED tvars

\* the crash parser alone, on every capture
NextExtract == \E crash \in Dumps : CallExtractCode(crash)

SpecExtract == Init /\ [][NextExtract]_vars

----------------------------------------------------------------------------
(* The worker thread: start(), stop() and _thread_loop, statement by       *)
(* statement where another thread can see the difference.                  *)

\* the lines the port delivers to a thread
ThreadLines == {AbortLine, ResetLine}

\* how a readline() ends: with a line, empty at the timeout, or raising
ReadOutcomes == {"line", "timeout", "error"}

\* a thread at the top of _thread_loop; pc: the statement it is at; line:
\* the line it has read; ser: it holds the port open; caught: its loop has
\* caught an exception
NewThread == [pc |-> "open", line |-> "", ser |-> FALSE, caught |-> FALSE]

\* start(): the test of self.running and the setting of the flag
Start ==
  /\ driver.pc = "ready"
  /\ IF running
       THEN /\ driver' = [driver EXCEPT !.stopped = FALSE]
            /\ running' = running
       ELSE /\ Len(workers) < MaxThreads
            /\ running' = TRUE
            /\ driver' = [pc |-> "starting", stopped |-> FALSE]
  /\ UNCHANGED <<thread, workers>>
  /\ UNCHANGED mvars

\* start(): the thread is created and started
StartThread ==
  /\ driver.pc = "starting"
  /\ workers' = Append(workers, NewThread)
  /\ thread' = Some(Len(workers) + 1)
  /\ driver' = [driver EXCEPT !.pc = "ready"]
  /\ UNCHANGED running
  /\ UNCHANGED mvars

\* a variant of stop() that returns without joining the thread
StopNoJoin ==
  /\ driver.pc = "ready"
  /\ running' = FALSE
  /\ driver' = [pc |-> "ready", stopped |-> TRUE]
  /\ UNCHANGED <<thread, workers>>
  /\ UNCHANGED mvars

\* stop(): the flag is cleared; with a thread, the join begins
Stop ==
  /\ driver.pc = "ready"
  /\ running' = FALSE
  /\ driver' = IF thread = None THEN [pc |-> "ready", stopped |-> TRUE]
                ELSE [pc |-> "joining", stopped |-> FALSE]
  /\ UNCHANGED <<thread, workers>>
  /\ UNCHANGED mvars

\* stop(): self.thread.join() returns once the thread has ended
Join ==
  /\ driver.pc = "joining"
  /\ workers[thread[1]].pc = "done"
  /\ driver' = [pc |-> "ready", stopped |-> TRUE]
  /\ UNCHANGED <<running, thread, workers>>
  /\ UNCHANGED mvars

\* _thread_loop: serial.Serial(...) opens the port or raises
ThreadOpen(i, ok) ==
  /\ workers[i].pc = "open"
  /\ workers' = [workers EXCEPT ![i] = IF ok THEN [@ EXCEPT !.pc = "test", !.ser = TRUE]
                                        ELSE [@ EXCEPT !.pc = "failed"]]
  /\ UNCHANGED <<running, thread, driver>>
  /\ UNCHANGED mvars

\* _thread_loop: the handler of the open error clears the flag and returns
ThreadOpenFailed(i) ==
  /\ workers[i].pc = "failed"
  /\ running' = FALSE
  /\ workers' = [workers EXCEPT ![i].pc = "done"]
  /\ UNCHANGED <<thread, driver>>
  /\ UNCHANGED mvars

\* a variant of the loop that never looks at the flag
ThreadTestIgnoresFlag(i) ==
  /\ workers[i].pc = "test"
  /\ workers' = [workers EXCEPT ![i].pc = "read"]
  /\ UNCHANGED <<running, thread, driver>>
  /\ UNCHANGED mvars

\* _thread_loop: while self.running
ThreadTest(i) ==
  /\ workers[i].pc = "test"
  /\ workers' = [workers EXCEPT ![i].pc = IF running THEN "read" ELSE "close"]
  /\ UNCHANGED <<running, thread, driver>>
  /\ UNCHANGED mvars

\* the bounds of the model have room for what _process_line(line) does: the
\* run ids it makes, the reading of the clock of a finalize, the line it
\* captures
RoomFor(line) ==
  LET finalizes == IF IsResetMarker(line) THEN crash_active
                   ELSE (crash_active \/ IsCrashStart(line)) /\ IsCrashEnd(line)
      runs == (IF IsResetMarker(line) THEN 1 ELSE 0)
                + (IF finalizes /\ run_id = None THEN 1 ELSE 0)
      held == IF IsResetMarker(line) THEN Len(crash_temp)
              ELSE IF IsCrashStart(line) THEN 1
              ELSE IF crash_active THEN Len(crash_temp) + 1
              ELSE Len(crash_temp)
  IN /\ run_counter + runs <= MaxRun
     /\ now + (IF finalizes THEN 1 ELSE 0) <= MaxNow
     /\ held <= MaxCrash

\* _thread_loop: ser.readline(), decoded and stripped; an empty line and an
\* error both lead back to the test of the flag.  The port delivers a line
\* only while the bounds of the model have room for what it leads to.
ThreadRead(i, outcome, line) ==
  /\ workers[i].pc = "read"
  /\ outcome = "line" => (hist.lines < MaxLines /\ RoomFor(line))
  /\ outcome = "error" => hist.fails < MaxFails
  /\ workers' = [workers EXCEPT ![i] =
        IF outcome = "line" THEN [@ EXCEPT !.pc = "process", !.line = line]
        ELSE IF outcome = "error" THEN [@ EXCEPT !.pc = "test", !.caught = TRUE]
        ELSE [@ EXCEPT !.pc = "test"]]
  /\ hist' = [hist EXCEPT !.fails = IF outcome = "error" THEN @ + 1 ELSE @]
  /\ UNCHANGED <<running, thread, driver>>
  /\ UNCHANGED <<state, log_buffer, crash_active, crash_temp, last_crash, run_id,
                 run_counter, crash_db, crash_db_path, disk, now, ret, last_op>>

\* a variant of the loop in which an exception of _process_line ends the
\* thread
ThreadProcessUncaught(i, io) ==
  /\ workers[i].pc = "process"
  /\ Process(workers[i].line, io)
  /\ workers' = [workers EXCEPT ![i] =
        IF last_op'.exc # "" THEN [@ EXCEPT !.pc = "done", !.line = "", !.ser = FALSE]
        ELSE [@ EXCEPT !.pc = "test", !.line = ""]]
  /\ UNCHANGED <<running, thread, driver>>

\* _thread_loop: self._process_line(line), an exception of which the loop
\* catches
ThreadProcess(i, io) ==
  /\ workers[i].pc = "process"
  /\ Process(workers[i].line, io)
  /\ workers' = [workers EXCEPT ![i] =
        [@ EXCEPT !.pc = "test", !.line = "",
                  !.caught = @ \/ last_op'.exc # ""]]
  /\ UNCHANGED <<running, thread, driver>>

\* _thread_loop: ser.close(), and the thread ends
ThreadClose(i) ==
  /\ workers[i].pc = "close"
  /\ workers' = [workers EXCEPT ![i] = [@ EXCEPT !.pc = "done", !.ser = FALSE]]
  /\ UNCHANGED <<running, thread, driver>>
  /\ UNCHANGED mvars

\* one statement of the i-th thread
ThreadStep(i) ==
  /\ i \in DOMAIN workers
  /\ \/ \E ok \in BOOLEAN : ThreadOpen(i, ok)
     \/ ThreadOpenFailed(i)
     \/ ThreadTest(i)
     \/ \E outcome \in ReadOutcomes, line \in ThreadLines : ThreadRead(i, outcome, line)
     \/ \E io \in IoOutcomes : ThreadProcess(i, io)
     \/ ThreadClose(i)

\* one driver calling start() and stop(), and the threads it creates
NextThreads ==
  \/ Start
  \/ StartThread
  \/ Stop
  \/ Join
  \/ \E i \in 1..MaxThreads : ThreadStep(i)

\* the scheduler lets every thread that can run a statement run it, and a
\* join return once its thread has ended
SpecThreads ==
  /\ Init
  /\ [][NextThreads]_vars
  /\ \A i \in 1..MaxThreads : WF_vars(ThreadStep(i))
  /\ WF_vars(Join)

----------------------------------------------------------------------------
(* _process_line statement by statement, as a reader on another thread     *)
(* sees it: the queries get_state, get_logs and get_crash take no lock.    *)

Queries == {"get_state", "get_logs", "get_crash"}

\* what a query returns from the monitor w
QueryValue(w, q) ==
  IF q = "get_state" THEN w.state
  ELSE IF q = "get_logs" THEN w.log_buffer
  ELSE w.last_crash

\* the i-th thread moves to pc; with end, the line in progress is over
StepTo(i, pc, end, exc) ==
  /\ workers' = [workers EXCEPT ![i] =
        IF end THEN [@ EXCEPT !.pc = "test", !.line = "", !.caught = @ \/ exc # ""]
        ELSE [@ EXCEPT !.pc = pc]]
  /\ hist' = [hist EXCEPT
                !.pre = IF end THEN None ELSE IF @ = None THEN Some(Self) ELSE @,
                !.lines = IF hist.pre = None THEN @ + 1 ELSE @,
                !.fails = IF exc # "" THEN @ + 1 ELSE @]
  /\ last_op' = IF end THEN [NoOp EXCEPT !.op = "process", !.line = workers[i].line,
                                         !.exc = exc]
                ELSE last_op
  /\ UNCHANGED <<running, thread, driver>>

\* lines 168-172: on a reset marker, the finalize of an open capture
StepFinalize(i, io) ==
  /\ workers[i].pc = "process"
  /\ IsResetMarker(workers[i].line)
  /\ \E w \in {IF crash_active THEN FinalizeCrash(Self, FALSE, io) ELSE Self} :
       /\ io = "ok" \/ (crash_active /\ hist.fails < MaxFails)
       /\ WithinBounds(w)
       /\ Become(w)
       /\ StepTo(i, "newrun", w.exc # "", w.exc)

\* lines 175-176: the run counter and the run id
StepNewRun(i) ==
  /\ workers[i].pc = "newrun"
  /\ run_counter < MaxRun
  /\ Become([Self EXCEPT !.run_counter = @ + 1,
                         !.run_id = Some(RunName(run_counter + 1))])
  /\ StepTo(i, "clear", FALSE, "")

\* line 178: self.log_buffer.clear()
StepClear(i) ==
  /\ workers[i].pc = "clear"
  /\ Become([Self EXCEPT !.log_buffer = <<>>])
  /\ StepTo(i, "booting", FALSE, "")

\* line 179: self.state = "booting"
StepBooting(i) ==
  /\ workers[i].pc = "booting"
  /\ Become([Self EXCEPT !.state = "booting"])
  /\ StepTo(i, "append", FALSE, "")

\* line 180: self.log_buffer.append(line)
StepAppend(i) ==
  /\ workers[i].pc = "append"
  /\ Become([Self EXCEPT !.log_buffer = DequeAppend(@, workers[i].line)])
  /\ StepTo(i, "test", TRUE, "")

\* lines 168 and 184: on another line, self.log_buffer.append(line)
StepStore(i) ==
  /\ workers[i].pc = "process"
  /\ ~IsResetMarker(workers[i].line)
  /\ Become([Self EXCEPT !.log_buffer = DequeAppend(@, workers[i].line)])
  /\ StepTo(i, "rest", FALSE, "")

\* lines 187-200: the capture, its finalize, the boot banner
StepRest(i, io) ==
  /\ workers[i].pc = "rest"
  /\ \E w \in {LET w2 == BeginCapture(Self, workers[i].line)
               IN IF w2.crash_active
                    THEN LET w3 == [w2 EXCEPT !.crash_temp = Append(@, workers[i].line)]
                         IN IF IsCrashEnd(workers[i].line)
                              THEN FinalizeCrash(w3, TRUE, io) ELSE w3
                  ELSE IF IsBootFinished(workers[i].line)
                    THEN [w2 EXCEPT !.state = "running"]
                  ELSE w2} :
       /\ io = "ok" \/ (w.now > now /\ hist.fails < MaxFails)
       /\ WithinBounds(w)
       /\ Become(w)
       /\ StepTo(i, "test", TRUE, w.exc)

\* what a query may return while a line is in progress: the value before the
\* line, or the value after it, however its save ends
\* a reader calls get_state(), get_logs() or get_crash()
Query(q) ==
  /\ thread # None
  /\ ret' = [call |-> q, arg |-> <<hist.pre, workers[thread[1]].line>>,
             value |-> QueryValue(Self, q)]
  /\ UNCHANGED <<state, log_buffer, crash_active, crash_temp, last_crash, run_id,
                 run_counter, crash_db, crash_db_path, disk, now, last_op, hist>>
  /\ UNCHANGED tvars

\* one statement of _process_line on the i-th thread
LineStep(i) ==
  /\ i \in DOMAIN workers
  /\ \/ \E io \in IoOutcomes : StepFinalize(i, io)
     \/ StepNewRun(i)
     \/ StepClear(i)
     \/ StepBooting(i)
     \/ StepAppend(i)
     \/ StepStore(i)
     \/ \E io \in IoOutcomes : StepRest(i, io)

\* the thread of one start() reading and processing lines, and a reader
NextRace ==
  \/ Start
  \/ StartThread
  \/ \E i \in DOMAIN workers :
       \/ \E ok \in BOOLEAN : ThreadOpen(i, ok)
       \/ ThreadOpenFailed(i)
       \/ ThreadTest(i)
       \/ \E outcome \in ReadOutcomes, line \in ThreadLines : ThreadRead(i, outcome, line)
       \/ LineStep(i)
  \/ \E q \in Queries : Query(q)

SpecRace == Init /\ [][NextRace]_vars

----------------------------------------------------------------------------
(* Properties.                                                             *)

\* the call that led to this state was _process_line on a reset marker
AfterReset == last_op.op = "process" /\ IsResetMarker(last_op.line)

\* C1: once process(line) has run on a reset marker, LifecycleState is
\* Booting and RecentLogs() is exactly [line], whether or not a capture was
\* open and whether or not the Save of the forced finalize succeeded.
C1_ResetBootsAndClearsLog ==
  AfterReset => state = "booting" /\ log_buffer = <<last_op.line>>

\* C2: after the crash-end line of a block (a crash-start line, then lines
\* that are neither reset markers nor crash-end lines, then the crash-end
\* line), the last crash and the stored record hold exactly the lines of the
\* block, from its first crash-start line on, and the record is complete.
C2_BlockCapturedWhole ==
  (last_op.op = "process" /\ hist.block.closed) =>
    /\ last_crash = hist.block.lines
    /\ run_id # None
    /\ HasKey(crash_db, run_id[1])
    /\ Get(crash_db, run_id[1]).raw_dump = hist.block.lines
    /\ Get(crash_db, run_id[1]).complete

\* C3: a reset marker processed while a capture is open (1) stores, under the
\* run id current before the reset, a record with complete = false whose
\* raw_dump is the lines captured so far, and (2) begins a new run: the
\* counter is incremented, the current run id is the new run_<counter>, and
\* the capture is no longer active.
C3_ResetFinalizesPartial ==
  [][(last_op'.op = "process" /\ IsResetMarker(last_op'.line) /\ crash_active) =>
       /\ HasKey(crash_db', KeyAtFinalize)
       /\ ~Get(crash_db', KeyAtFinalize).complete
       /\ Get(crash_db', KeyAtFinalize).raw_dump = crash_temp
       /\ run_counter' > run_counter
       /\ run_id' = Some(RunName(run_counter'))
       /\ run_id' # Some(KeyAtFinalize)
       /\ ~crash_active']_vars

\* C4: within one lifetime, over process and set_run_id calls, every run id
\* that process assigns has a numeric suffix greater than that of every run
\* id that was current before, one installed by set_run_id included.
C4_AssignedRunIdsIncrease ==
  (last_op.op = "process" /\ last_op.assigned /\ ~hist.loaded) =>
    NumSuffix(run_id) > hist.hi

\* the n of the keys run_<n> of the snapshot on disk
SnapshotRuns == {n \in 0..(MaxRun + 2) : RunName(n) \in KeySet(disk.doc.o)}
\* the largest of them, 0 with none
SnapshotMax == IF SnapshotRuns = {} THEN 0
               ELSE CHOOSE n \in SnapshotRuns : \A m \in SnapshotRuns : m <= n

\* C5: after load_db has read a snapshot, run_counter is the largest n of a
\* key run_<n> of the snapshot, 0 with none, keys with another suffix being
\* skipped; the counter then stays until _process_line assigns a run id, and
\* the first id it assigns is run_<counter+1>
C5_LoadResumesCounter ==
  /\ []((last_op.op = "load_db" /\ last_op.exc = "" /\ disk.kind = "json") =>
          run_counter = SnapshotMax)
  /\ [][(last_op'.op = "process" /\ last_op'.assigned) =>
          \/ run_id' = Some(RunName(run_counter + 1))
          \/ /\ HasKey(crash_db', RunName(run_counter + 1))
             /\ run_id' = Some(RunName(run_counter + 2))]_vars
  /\ [][run_counter' # run_counter =>
          \/ last_op'.op = "process" /\ last_op'.assigned
          \/ last_op'.op \in {"load_db", "init"}]_vars

\* load_db has read a snapshot that holds a key run_<n> and the key run_x
C5_Witness ==
  /\ last_op.op = "load_db" /\ last_op.exc = "" /\ disk.kind = "json"
  /\ "run_x" \in KeySet(disk.doc.o)
  /\ SnapshotMax >= 1
  /\ run_counter = SnapshotMax

\* the one record of the scenario
ScenarioRecord == crash_db[1][2]

\* C6: from a fresh monitor, the six lines of the scenario in order: the
\* state is "unknown" before the reset line, "booting" from it through the
\* crash block, "running" after the last line; the history is empty until
\* the Code line and from it holds one record, under run_1, complete, with
\* the elr of the elr line and the last hex word of the Code line
C6_ScenarioOutcome ==
  /\ hist.scen = 0 => state = "unknown"
  /\ hist.scen \in 1..5 => state = "booting"
  /\ hist.scen = 6 => state = "running"
  /\ hist.scen \in 0..4 => crash_db = <<>>
  /\ hist.scen \in 5..6 =>
       /\ Keys(crash_db) = <<"run_1">>
       /\ ScenarioRecord.complete
       /\ ScenarioRecord.elr = Some("0x1234")
       /\ ScenarioRecord.faulting_instruction = Some("33333333")

\* the six lines have been fed
C6_Witness == hist.scen = 6 /\ state = "running" /\ Len(crash_db) = 1

\* C7: a load_db right after a save_db that wrote the file leaves crash_db
\* with the keys it had, in their order, and with the same entry under each
C7_SaveLoadRoundTrip ==
  [][(last_op.saved /\ last_op'.op = "load_db" /\ last_op'.exc = "") =>
       /\ Keys(crash_db') = Keys(crash_db)
       /\ \A k \in KeySet(crash_db) : Get(crash_db', k) = Get(crash_db, k)]_vars

\* load_db has followed a save of a history with an entry made under a lazily
\* allocated run id and without an elr
C7_Witness ==
  /\ last_op.op = "load_db" /\ last_op.exc = "" /\ last_op.follows_save
  /\ \E k \in KeySet(crash_db) :
       /\ Get(crash_db, k).run_id = None
       /\ Get(crash_db, k).elr = None
       /\ Get(crash_db, k).raw_dump # <<>>

\* l.startswith("Code:"), and the words of eight hex digits of the parser lines
C8_IsCode(l) == Len(l) >= 5 /\ SubSeq(l, 1, 5) = "Code:"
C8_Words(l) ==
  IF l = "Code: 11111111 22222222 (33333333)" THEN <<"11111111", "22222222", "33333333">>
  ELSE IF l = "Code: aaaaaaaa bbbbbbbb (cccccccc)" THEN <<"aaaaaaaa", "bbbbbbbb", "cccccccc">>
  ELSE IF l = "Code: deadbeef" THEN <<"deadbeef">>
  ELSE <<>>
\* the places of the first Code line of a capture: one or none
C8_FirstCode(crash) ==
  {i \in DOMAIN crash : C8_IsCode(crash[i]) /\ \A j \in 1..(i - 1) : ~C8_IsCode(crash[j])}

\* C8: _extract_code answers from the first line that starts with "Code:"
\* alone: with k >= 1 words there, the first k-1 words in order and the last
\* word; with no such line, or no word on it, (None, None)
C8_ExtractCodeFirstCodeLine ==
  ret.call = "_extract_code" =>
    LET first == C8_FirstCode(ret.arg)
    IN IF first = {} THEN ret.value = <<None, None>>
       ELSE LET words == C8_Words(ret.arg[CHOOSE i \in first : TRUE])
                k == Len(words)
            IN IF k = 0 THEN ret.value = <<None, None>>
               ELSE ret.value = <<Some(SubSeq(words, 1, k - 1)), Some(words[k])>>

\* the parser has answered (None, None) for a capture whose first Code line
\* has no word and whose next one has three
C8_Witness ==
  /\ ret.call = "_extract_code"
  /\ ret.arg = <<BootMsgLine, CodeNoWordLine, CodeLine>>
  /\ ret.value = <<None, None>>

\* the keys of the snapshot on disk, none when the file holds no document
DiskKeys == IF disk.kind = "json" THEN KeySet(disk.doc.o) ELSE {}

\* C9: the snapshot on disk never loses a key that a save has written; stated
\* for the steps in which no call raises, so that a write that fails half
\* way is not what loses it
C9_SnapshotKeepsKeys ==
  [][last_op'.exc = "" => DiskKeys \subseteq DiskKeys']_vars

\* C10: a _finalize_crash whose save_db raises leaves its entry in crash_db
\* under the current run id; the entries of such finalizes stay in crash_db;
\* and after a save_db that wrote the file, the file holds crash_db, key by
\* key, the keys of those finalizes among them
C10_FailedSaveKeepsRecord ==
  /\ (last_op.op = "process" /\ last_op.finalized /\ last_op.exc # "") =>
       /\ run_id # None
       /\ HasKey(crash_db, run_id[1])
       /\ Get(crash_db, run_id[1]).raw_dump = last_crash
  /\ hist.failed \subseteq KeySet(crash_db)
  /\ last_op.saved =>
       /\ disk.kind = "json"
       /\ Keys(JsonLoad(disk.doc)) = Keys(crash_db)
       /\ DictEq(JsonLoad(disk.doc), crash_db)
       /\ hist.failed \subseteq KeySet(disk.doc.o)

\* a save has written the file after a finalize whose own save had failed
C10_Witness == last_op.saved /\ hist.failed # {} /\ disk.kind = "json"

\* the threads that hold the port or are in the loop of _thread_loop
InLoop == {i \in DOMAIN workers :
             workers[i].ser \/ workers[i].pc \in {"test", "read", "process", "close"}}

\* C11: once stop() has returned and until start() is called again, every
\* thread has ended and holds no port, and no step changes the monitor, its
\* file or its log; and never are two threads in the read loop
C11_StopEndsWorker ==
  /\ [](driver.stopped =>
          \A i \in DOMAIN workers : workers[i].pc = "done" /\ ~workers[i].ser)
  /\ [](Cardinality(InLoop) <= 1)
  /\ [][(driver.stopped /\ driver'.stopped) =>
          UNCHANGED <<state, log_buffer, crash_active, crash_temp, last_crash,
                      run_id, run_counter, crash_db, disk, workers>>]_vars

\* stop() has returned after two threads were created and lines were processed
C11_Witness ==
  /\ driver.stopped
  /\ Len(workers) = 2
  /\ hist.lines > 0
  /\ \A i \in DOMAIN workers : workers[i].pc = "done"

\* the monitor before the line and the monitors the whole line can leave
C12_Outcomes(w, line) == {w} \cup {ProcessLine(w, line, io) : io \in IoOutcomes}

\* the values a query may return when it was made with the line in progress
\* started from pre (None: no line in progress)
C12_Settled(q, pre, line) ==
  IF pre = None THEN {ret.value}
  ELSE {QueryValue(w, q) : w \in C12_Outcomes(pre[1], line)}

\* C12: a query made while a line is being processed returns the value from
\* before the line or the value after it; in particular get_logs() is never
\* empty in the middle of a reset
C12_QueriesSeeWholeLines ==
  ret.call \in Queries => ret.value \in C12_Settled(ret.call, ret.arg[1], ret.arg[2])

\* C13: every record of crash_db carries the run id it is stored under, also
\* when _finalize_crash had to make the run id itself
C13_RecordTaggedWithKey ==
  \A k \in KeySet(crash_db) : Get(crash_db, k).run_id = Some(k)

\* C14: a boot-finished line processed while a capture is active leaves the
\* state as it was, and the state becomes "running" only in the processing of
\* a boot-finished line with no capture active
C14_BannerIgnoredInCapture ==
  [][/\ (last_op'.op = "process" /\ IsBootFinished(last_op'.line) /\ crash_active)
         => state' = state
     /\ (state' = "running" /\ state # "running")
         => (last_op'.op = "process" /\ IsBootFinished(last_op'.line) /\ ~crash_active)]_vars

\* the banner was processed inside a capture that had begun while booting
C14_Witness ==
  /\ last_op.op = "process" /\ IsBootFinished(last_op.line)
  /\ crash_active
  /\ crash_temp = <<AbortLine, StartedLine>>
  /\ state = "booting"

\* C15: after any sequence of lines the log holds at most MaxLog lines and is
\* the lines processed since and including the last reset marker (all of them
\* if there was none), cut to the newest MaxLog
C15_LogIsLinesSinceReset ==
  /\ Len(log_buffer) <= MaxLog
  /\ log_buffer = hist.log

\* C16: a read that raises and a _process_line that raises both leave the
\* thread in its loop, at the test of the flag; a line that was read is handed
\* to _process_line; the thread leaves the loop only at the test, with the flag
\* cleared, and ends otherwise only when the port could not be opened
C16_FailuresKeepWorker ==
  [][\A i \in DOMAIN workers :
       LET pc == workers[i].pc
           to == workers'[i].pc
       IN /\ (pc = "read" /\ to # pc) => to \in {"process", "test"}
          /\ (pc = "process" /\ to # pc) =>
                /\ to = "test"
                /\ last_op'.op = "process" /\ last_op'.line = workers[i].line
                /\ hist'.lines = hist.lines + 1
          /\ (pc = "read" /\ to = "process") => workers'[i].line \in ThreadLines
          /\ (to = "close" /\ pc # to) => (pc = "test" /\ ~running)
          /\ (to = "done" /\ pc # to) => pc \in {"close", "failed"}
          /\ (to = "failed" /\ pc # to) => pc = "open"]_vars

\* a thread whose _process_line raised on a failed save has since processed
\* another line, and is at the test of the flag
C16_Witness ==
  \E i \in DOMAIN workers :
    /\ workers[i].caught /\ workers[i].pc = "test"
    /\ hist.failed # {}
    /\ last_op.op = "process" /\ last_op.exc = ""

\* C17: once stop() has cleared the flag and waits in join(), it returns:
\* the thread sees the flag at its next test, closes the port and ends
C17_StopReturns ==
  (driver.pc = "joining") ~> (driver.pc = "ready" /\ driver.stopped)

\* stop() has returned from the join of a thread that had processed a line and
\* caught an exception in its loop
C17_Witness ==
  /\ driver.stopped /\ thread # None
  /\ workers[thread[1]].pc = "done" /\ workers[thread[1]].caught
  /\ hist.lines > 0

\* C18: every record of crash_db has a raw_dump that is not empty, begins with
\* a crash-start line and holds no reset marker, and the record is complete
\* exactly when the last line of its raw_dump is a crash-end line
C18_RecordsWellFormed ==
  \A k \in KeySet(crash_db) :
    LET dump == Get(crash_db, k).raw_dump
    IN /\ dump # <<>>
       /\ IsCrashStart(dump[1])
       /\ \A j \in 1..Len(dump) : ~IsResetMarker(dump[j])
       /\ Get(crash_db, k).complete <=> IsCrashEnd(dump[Len(dump)])

\* the history holds a complete record of several lines and a partial one
C18_Witness ==
  \E k1, k2 \in KeySet(crash_db) :
    /\ Get(crash_db, k1).complete /\ Len(Get(crash_db, k1).raw_dump) >= 2
    /\ ~Get(crash_db, k2).complete

\* C19: a finalize that replaces a record of crash_db replaces one that was
\* made in the boot attempt the stream is in
C19_FinalizeKeepsOtherAttempts ==
  [][(last_op'.op = "process" /\ last_op'.finalized /\ HasKey(crash_db, KeyAtFinalize))
       => KeyAtFinalize \in hist.span]_vars

\* C20: the state becomes "booting" only in the processing of a reset marker,
\* becomes "running" only in the processing of a boot-finished line that is
\* outside a capture and begins none, and once it is not "unknown" it never is
\* again
C20_StateTransitions ==
  [][/\ (state' = "booting" /\ state # "booting")
         => (last_op'.op = "process" /\ IsResetMarker(last_op'.line))
     /\ (state' = "running" /\ state # "running")
         => /\ last_op'.op = "process" /\ IsBootFinished(last_op'.line)
            /\ ~crash_active /\ ~IsCrashStart(last_op'.line)
     /\ state # "unknown" => state' # "unknown"
     /\ state' \in {"unknown", "booting", "running"}]_vars

\* the second boot of the stream has finished, after a crash was recorded
C20_Witness ==
  /\ state = "running" /\ run_counter = 2 /\ crash_db # <<>>
  /\ last_op.op = "process" /\ IsBootFinished(last_op.line)

====
